---- MODULE Spec2Model ----
\* A model of mdit's attribute-run compiler (src/src/editor/renderer.rs), its
\* attribute-set vocabulary (src/src/markdown/attributes.rs) and the cursor
\* containment query (src/src/editor/cursor_tracker.rs).
\*
\* Conventions
\*   - a text is a sequence of bytes of a valid UTF-8 string; the bytes the
\*     code distinguishes are '#' (ATX heading test) and '\n' (setext underline
\*     search); "a" is any other one-byte character, "L" the lead byte and "c"
\*     the continuation byte of a two-byte character (a str slice must start
\*     and end on a character boundary);
\*   - Option<T> is a sequence of at most one element: None is <<>>, Some(x)
\*     is <<x>>;
\*   - a MarkdownSpan is a record [kind, level, source_range, children]; level
\*     is the payload of NodeKind::Heading and 0 for every other kind (the
\*     url / language payloads are never read by the modelled code);
\*   - a TextAttribute is a record [tag, num, tok]: num is the numeric payload
\*     (FontSize, LineSpacing), tok the colour token, each at its default when
\*     the variant has no such payload;
\*   - an AttributeSet is the Vec<TextAttribute> it wraps: a sequence.
\*
\* The functions are pure; each of the first three specifications is one call
\* of one of them on arguments drawn from bounded sets; the fourth is the
\* editor around them:
\*   Spec      compute_attribute_runs(text, spans, cursor_pos)
\*   FindSpec  find_containing_span(spans, pos)
\*   AttrSpec  AttributeSet::for_heading(level), AttributeSet::for_code_block()
\*   HostSpec  MditEditorDelegate (src/src/editor/text_storage.rs) under the
\*             text-view callbacks of src/src/app.rs
EXTENDS Integers, Sequences, FiniteSets, TLC

VARIABLES
    call,        \* the function under call ("host": the editor)
    pc,          \* "start" before the call, "done" after it returned,
                 \* "panicked" after it aborted; "idle" in the editor
    text,        \* argument: the source text (editor: the text storage's string)
    spans,       \* argument: the span forest (editor: the delegate's `spans`)
    cursor_pos,  \* argument: Option<usize>, the caret (editor: the delegate's
                 \* `cursor_pos`)
    pos,         \* argument of find_containing_span
    level,       \* argument of for_heading
    runs,        \* result of compute_attribute_runs (editor: the runs last
                 \* applied to the text storage)
    found,       \* result of find_containing_span: Option<&MarkdownSpan>
    attrs,       \* result of an AttributeSet constructor
    selection,   \* editor: the text view's selectedRange, <<location, length>>
    toolbar,     \* editor: "hidden" or "shown", the floating toolbar
    applying,    \* editor: the delegate's re-entrancy flag
    pending,     \* editor: Option of the didProcessEditing callback the text
                 \* storage is about to deliver, [edited_characters |-> BOOLEAN]
    heading_sep_positions,  \* editor: the delegate's ivar
    code_block_infos,       \* editor: the delegate's ivar
    tabs,        \* application: Vec<DocumentState>, a sequence of documents
    active_index,  \* application: index (from 0) of the active tab
    save_choice  \* application: Option of the last answer to the save alert

vars == <<call, pc, text, spans, cursor_pos, pos, level, runs, found, attrs,
          selection, toolbar, applying, pending, heading_sep_positions,
          code_block_infos, tabs, active_index, save_choice>>

\* The editor's variables, which a call of a pure function leaves alone
hostvars == <<selection, toolbar, applying, pending, heading_sep_positions,
              code_block_infos>>

\* The application's tab list, which the editor of one document leaves alone
appvars == <<tabs, active_index, save_choice>>

\* Outside the editor its variables are at rest
NoHost ==
    /\ selection = <<0, 0>>
    /\ toolbar = "hidden"
    /\ applying = FALSE
    /\ pending = <<>>
    /\ heading_sep_positions = <<>>
    /\ code_block_infos = <<>>

\* Outside the application there is no tab
NoApp ==
    /\ tabs = <<>>
    /\ active_index = 0
    /\ save_choice = <<>>

\* ---------------------------------------------------------------------------
\* Small helpers
\* ---------------------------------------------------------------------------

Min(a, b) == IF a <= b THEN a ELSE b

Max(a, b) == IF a >= b THEN a ELSE b

\* usize::saturating_sub
SaturatingSub(a, b) == IF a >= b THEN a - b ELSE 0

None == <<>>

Some(x) == <<x>>

\* ---------------------------------------------------------------------------
\* markdown/attributes.rs
\* ---------------------------------------------------------------------------

Attr(tag, num, tok) == [tag |-> tag, num |-> num, tok |-> tok]

Bold == Attr("Bold", 0, "")

Italic == Attr("Italic", 0, "")

Monospace == Attr("Monospace", 0, "")

Hidden == Attr("Hidden", 0, "")

FontSize(s) == Attr("FontSize", s, "")

ForegroundColor(t) == Attr("ForegroundColor", 0, t)

BackgroundColor(t) == Attr("BackgroundColor", 0, t)

ListMarker == Attr("ListMarker", 0, "")

BlockquoteBar == Attr("BlockquoteBar", 0, "")

Strikethrough == Attr("Strikethrough", 0, "")

HeadingSeparator == Attr("HeadingSeparator", 0, "")

\* AttributeSet::contains
Contains(set, attr) == \E i \in DOMAIN set : set[i] = attr

\* AttributeSet::font_size: the first FontSize fact, 16 when there is none
font_size(set) ==
    IF \E i \in DOMAIN set : set[i].tag = "FontSize"
    THEN set[CHOOSE i \in DOMAIN set :
                 /\ set[i].tag = "FontSize"
                 /\ \A j \in DOMAIN set : set[j].tag = "FontSize" => i <= j].num
    ELSE 16

for_strong == <<Bold>>

for_emph == <<Italic>>

for_heading_size(lvl) ==
    CASE lvl = 1 -> 32
      [] lvl = 2 -> 26
      [] lvl = 3 -> 21
      [] OTHER -> 16

\* Mutant of for_heading: the separator for level 1 only
for_heading_StrictSeparator(lvl) ==
    LET base == <<Bold, FontSize(for_heading_size(lvl)), ForegroundColor("heading")>>
    IN  IF lvl < 2 THEN Append(base, HeadingSeparator) ELSE base

for_heading(lvl) ==
    LET base == <<Bold, FontSize(for_heading_size(lvl)), ForegroundColor("heading")>>
    IN  IF lvl <= 2 THEN Append(base, HeadingSeparator) ELSE base

for_inline_code ==
    <<Monospace, BackgroundColor("code_bg"), ForegroundColor("code_fg")>>

for_code_block ==
    <<Monospace, BackgroundColor("code_block_bg"), ForegroundColor("code_fg")>>

for_link == <<ForegroundColor("link")>>

for_strikethrough == <<Strikethrough, ForegroundColor("strikethrough")>>

for_blockquote == <<BlockquoteBar, ForegroundColor("blockquote")>>

for_list_marker == <<ListMarker, ForegroundColor("list_marker")>>

syntax_hidden == <<Hidden>>

syntax_visible == <<ForegroundColor("syntax")>>

plain == <<>>

\* ---------------------------------------------------------------------------
\* editor/renderer.rs
\* ---------------------------------------------------------------------------

AttributeRun(s, e, a) == [range |-> <<s, e>>, attrs |-> a]

\* Mutant of cursor_in_span: the end of the range excluded
cursor_in_span_ExclusiveEnd(p, range) ==
    IF p = None THEN FALSE ELSE p[1] >= range[1] /\ p[1] < range[2]

cursor_in_span(p, range) ==
    IF p = None THEN FALSE ELSE p[1] >= range[1] /\ p[1] <= range[2]

\* Mutant of syntax_attrs: the markers under the caret left unstyled
syntax_attrs_PlainUnderCaret(cursor, span_range) ==
    IF cursor_in_span(cursor, span_range) THEN plain ELSE syntax_hidden

syntax_attrs(cursor, span_range) ==
    IF cursor_in_span(cursor, span_range) THEN syntax_visible ELSE syntax_hidden

\* Mutant of IsAtx: the byte after the start tested
IsAtx_NextByte(txt, start) == start + 2 \in DOMAIN txt /\ txt[start + 2] = "#"

\* text.as_bytes().get(start).copied() == Some(b'#')
IsAtx(txt, start) == start + 1 \in DOMAIN txt /\ txt[start + 1] = "#"

\* str::is_char_boundary: offset 0, the length, or a byte that does not
\* continue a character
is_char_boundary(txt, i) ==
    \/ i = 0
    \/ i = Len(txt)
    \/ (i < Len(txt) /\ txt[i + 1] # "c")

\* `&text[start..end]` panics unless start <= end <= len and both offsets are
\* character boundaries
SlicePanics(txt, start, end) ==
    \/ start > end
    \/ end > Len(txt)
    \/ ~is_char_boundary(txt, start)
    \/ ~is_char_boundary(txt, end)

\* text[start..end].rfind('\n'): the offset, relative to start, of the last
\* newline among the bytes start .. end-1; None when there is none.
RFindNewline(txt, start, end) ==
    LET nls == {i \in start .. (end - 1) : txt[i + 1] = "\n"}
    IN  IF nls = {} THEN None
        ELSE Some((CHOOSE i \in nls : \A j \in nls : j <= i) - start)

\* The Strong / Strikethrough / Emph / Code arms: markers of length m on both
\* sides, the interior styled with `inner` when one remains.
Delimited(start, end, m, syn, inner, out) ==
    LET a == Append(out, AttributeRun(start, start + m, syn))
        b == IF start + m < SaturatingSub(end, m)
             THEN Append(a, AttributeRun(start + m, end - m, inner))
             ELSE a
    IN  Append(b, AttributeRun(end - m, end, syn))

\* Mutant of HeadingRuns: the separator dropped from the content run of a
\* heading that does not start the text
HeadingRuns_SeparatorAtTextStart(txt, start, end, lvl, syn, out) ==
    LET content == IF start = 0 THEN for_heading(lvl)
                   ELSE SelectSeq(for_heading(lvl), LAMBDA a : a # HeadingSeparator)
    IN  IF IsAtx(txt, start)
        THEN LET prefix_len == Min(lvl + 1, end - start)
                 a == Append(out, AttributeRun(start, start + prefix_len, syn))
             IN  IF start + prefix_len < end
                 THEN Append(a, AttributeRun(start + prefix_len, end, content))
                 ELSE a
        ELSE LET nl == RFindNewline(txt, start, end)
             IN  IF nl # None
                 THEN LET nl_abs == start + nl[1]
                          a == IF start < nl_abs
                               THEN Append(out, AttributeRun(start, nl_abs, content))
                               ELSE out
                      IN  IF nl_abs < end
                          THEN Append(a, AttributeRun(nl_abs, end, syn))
                          ELSE a
                 ELSE Append(out, AttributeRun(start, end, content))

\* The NodeKind::Heading arm
HeadingRuns(txt, start, end, lvl, syn, out) ==
    IF IsAtx(txt, start)
    THEN LET prefix_len == Min(lvl + 1, end - start)
             a == Append(out, AttributeRun(start, start + prefix_len, syn))
         IN  IF start + prefix_len < end
             THEN Append(a, AttributeRun(start + prefix_len, end, for_heading(lvl)))
             ELSE a
    ELSE LET nl == RFindNewline(txt, start, end)
         IN  IF nl # None
             THEN LET nl_abs == start + nl[1]
                      a == IF start < nl_abs
                           THEN Append(out, AttributeRun(start, nl_abs, for_heading(lvl)))
                           ELSE out
                  IN  IF nl_abs < end
                      THEN Append(a, AttributeRun(nl_abs, end, syn))
                      ELSE a
             ELSE Append(out, AttributeRun(start, end, for_heading(lvl)))

\* Mutant of CodeBlockRuns: the first byte split off as a syntax marker
CodeBlockRuns_Split(start, end, out) ==
    IF start + 1 < end
    THEN Append(Append(out, AttributeRun(start, start + 1, syntax_hidden)),
                AttributeRun(start + 1, end, for_code_block))
    ELSE Append(out, AttributeRun(start, end, for_code_block))

\* The NodeKind::CodeBlock arm
CodeBlockRuns(start, end, out) ==
    Append(out, AttributeRun(start, end, for_code_block))

\* Mutant of ItemMarker: the two-byte marker also for an item with children
ItemMarker_FixedTwo(span, start, end, out) ==
    LET marker_end == Min(start + 2, end)
    IN  IF start < marker_end
        THEN Append(out, AttributeRun(start, marker_end, for_list_marker))
        ELSE out

\* The marker part of the NodeKind::Item arm
ItemMarker(span, start, end, out) ==
    LET marker_end ==
            Min(IF Len(span.children) > 0
                THEN span.children[1].source_range[1]
                ELSE start + 2,
                end)
    IN  IF start < marker_end
        THEN Append(out, AttributeRun(start, marker_end, for_list_marker))
        ELSE out

\* Mutant of Degenerate: a span starting at or past the end of the text is
\* not skipped
Degenerate_InvertedOnly(txt, span) ==
    span.source_range[1] >= span.source_range[2]

\* `start >= end || start >= text.len()`: the node and its subtree are skipped
Degenerate(txt, span) ==
    \/ span.source_range[1] >= span.source_range[2]
    \/ span.source_range[1] >= Len(txt)

RECURSIVE collect_runs(_, _, _, _)
RECURSIVE CollectChildren(_, _, _, _)

\* Mutant of CollectChildren: the loop left after the first child
CollectChildren_FirstOnly(txt, children, cursor, out) ==
    IF children = <<>> THEN out
    ELSE collect_runs(txt, Head(children), cursor, out)

\* `for child in &span.children { collect_runs(text, child, cursor_pos, runs) }`
CollectChildren(txt, children, cursor, out) ==
    IF children = <<>> THEN out
    ELSE CollectChildren(txt, Tail(children), cursor,
                         collect_runs(txt, Head(children), cursor, out))

\* Mutant of collect_runs: the Link and BlockQuote arms go on into the children
collect_runs_DescendsBelowWholeSpan(txt, span, cursor, out) ==
    IF Degenerate(txt, span) THEN out
    ELSE LET start == span.source_range[1]
             end   == Min(span.source_range[2], Len(txt))
             syn   == syntax_attrs(cursor, span.source_range)
             k     == span.kind
         IN  CASE k = "Strong" ->
                     Delimited(start, end, Min(2, end - start), syn, for_strong, out)
               [] k = "Emph" ->
                     Delimited(start, end, 1, syn, for_emph, out)
               [] k = "Code" ->
                     Delimited(start, end, 1, syn, for_inline_code, out)
               [] k = "Heading" ->
                     HeadingRuns(txt, start, end, span.level, syn, out)
               [] k = "Strikethrough" ->
                     Delimited(start, end, Min(2, end - start), syn,
                               for_strikethrough, out)
               [] k = "Link" ->
                     CollectChildren(txt, span.children, cursor,
                                     Append(out, AttributeRun(start, end, for_link)))
               [] k = "CodeBlock" ->
                     CodeBlockRuns(start, end, out)
               [] k = "BlockQuote" ->
                     CollectChildren(txt, span.children, cursor,
                                     Append(out, AttributeRun(start, end, for_blockquote)))
               [] k = "List" ->
                     CollectChildren(txt, span.children, cursor, out)
               [] k = "Item" ->
                     CollectChildren(txt, span.children, cursor,
                                     ItemMarker(span, start, end, out))
               [] k = "Table" ->
                     Append(out, AttributeRun(start, end, for_code_block))
               [] k = "Footnote" ->
                     Append(out, AttributeRun(start, end, for_link))
               [] OTHER ->
                     CollectChildren(txt, span.children, cursor, out)

collect_runs(txt, span, cursor, out) ==
    IF Degenerate(txt, span) THEN out
    ELSE LET start == span.source_range[1]
             end   == Min(span.source_range[2], Len(txt))
             syn   == syntax_attrs(cursor, span.source_range)
             k     == span.kind
         IN  CASE k = "Strong" ->
                     Delimited(start, end, Min(2, end - start), syn, for_strong, out)
               [] k = "Emph" ->
                     Delimited(start, end, 1, syn, for_emph, out)
               [] k = "Code" ->
                     Delimited(start, end, 1, syn, for_inline_code, out)
               [] k = "Heading" ->
                     HeadingRuns(txt, start, end, span.level, syn, out)
               [] k = "Strikethrough" ->
                     Delimited(start, end, Min(2, end - start), syn,
                               for_strikethrough, out)
               [] k = "Link" ->
                     Append(out, AttributeRun(start, end, for_link))
               [] k = "CodeBlock" ->
                     CodeBlockRuns(start, end, out)
               [] k = "BlockQuote" ->
                     Append(out, AttributeRun(start, end, for_blockquote))
               [] k = "List" ->
                     CollectChildren(txt, span.children, cursor, out)
               [] k = "Item" ->
                     CollectChildren(txt, span.children, cursor,
                                     ItemMarker(span, start, end, out))
               [] k = "Table" ->
                     Append(out, AttributeRun(start, end, for_code_block))
               [] k = "Footnote" ->
                     Append(out, AttributeRun(start, end, for_link))
               [] OTHER ->
                     CollectChildren(txt, span.children, cursor, out)

\* The calls of collect_runs that abort: the only operation of the traversal
\* that can panic is the slice `&text[start..end]` of the setext branch of the
\* Heading arm (the subtractions are guarded by start < end, the byte test of
\* the ATX branch uses `get`). The traversal is that of collect_runs: a skipped
\* node and the children of a node whose arm does not recurse are not visited.
RECURSIVE collect_runs_panics(_, _)
collect_runs_panics(txt, span) ==
    IF Degenerate(txt, span) THEN FALSE
    ELSE LET start == span.source_range[1]
             end   == Min(span.source_range[2], Len(txt))
             k     == span.kind
         IN  CASE k = "Heading" ->
                     ~IsAtx(txt, start) /\ SlicePanics(txt, start, end)
               [] k \in {"Strong", "Emph", "Code", "Strikethrough", "Link",
                         "CodeBlock", "BlockQuote", "Table", "Footnote"} ->
                     FALSE
               [] OTHER ->
                     \E i \in DOMAIN span.children :
                         collect_runs_panics(txt, span.children[i])

\* compute_attribute_runs aborts when the call for one of the roots does
Panics(txt, forest) ==
    \E i \in DOMAIN forest : collect_runs_panics(txt, forest[i])

\* runs.sort_by_key(|r| r.range.0): a stable sort by start offset
RECURSIVE InsertByStart(_, _)
InsertByStart(sorted, r) ==
    IF sorted = <<>> THEN <<r>>
    ELSE IF r.range[1] < Head(sorted).range[1]
         THEN <<r>> \o sorted
         ELSE <<Head(sorted)>> \o InsertByStart(Tail(sorted), r)

RECURSIVE SortByStart(_)
SortByStart(rs) ==
    IF rs = <<>> THEN <<>>
    ELSE InsertByStart(SortByStart(SubSeq(rs, 1, Len(rs) - 1)), rs[Len(rs)])

\* The loop of fill_gaps: `p` is the local `pos`, `result` the output so far
RECURSIVE FillLoop(_, _, _)
FillLoop(rs, p, result) ==
    IF rs = <<>> THEN <<p, result>>
    ELSE LET run == Head(rs)
             r1  == IF run.range[1] > p
                    THEN Append(result, AttributeRun(p, run.range[1], plain))
                    ELSE result
         IN  FillLoop(Tail(rs), Max(run.range[2], p), Append(r1, run))

\* Mutant of fill_gaps: no plain run after the last emitted run
fill_gaps_NoTail(text_len, rs) ==
    FillLoop(SortByStart(rs), 0, <<>>)[2]

fill_gaps(text_len, rs) ==
    LET after == FillLoop(SortByStart(rs), 0, <<>>)
    IN  IF after[1] < text_len
        THEN Append(after[2], AttributeRun(after[1], text_len, plain))
        ELSE after[2]

\* The emitted runs before gap filling (the local `runs` vector)
EmittedRuns(txt, forest, cursor) == CollectChildren(txt, forest, cursor, <<>>)

compute_attribute_runs(txt, forest, cursor) ==
    fill_gaps(Len(txt), EmittedRuns(txt, forest, cursor))

\* ---------------------------------------------------------------------------
\* editor/cursor_tracker.rs
\* ---------------------------------------------------------------------------

is_interesting(kind) ==
    kind \notin {"Text", "Other", "Paragraph", "List", "Item", "HtmlInline"}

\* Mutant of SpanContains: the end of the range excluded
SpanContains_ExclusiveEnd(span, p) ==
    p >= span.source_range[1] /\ p < span.source_range[2]

\* `pos >= span.source_range.0 && pos <= span.source_range.1`
SpanContains(span, p) ==
    p >= span.source_range[1] /\ p <= span.source_range[2]

\* Mutant of MatchAt: the span itself is preferred to its children
MatchAt_ParentFirst(span, inner) ==
    IF is_interesting(span.kind) THEN Some(span) ELSE inner

\* Lines 11-17, for a span that contains the position: the match found among
\* its children wins, then the span itself when it is interesting
MatchAt(span, inner) ==
    IF inner # None THEN inner
    ELSE IF is_interesting(span.kind) THEN Some(span)
    ELSE None

RECURSIVE find_containing_span(_, _)

\* Mutant of find_containing_span: the later siblings are searched first
find_containing_span_LaterFirst(forest, p) ==
    IF forest = <<>> THEN None
    ELSE LET span == Head(forest)
             m == IF SpanContains(span, p)
                  THEN MatchAt(span, find_containing_span(span.children, p))
                  ELSE None
             later == find_containing_span(Tail(forest), p)
         IN  IF later # None THEN later ELSE m

find_containing_span(forest, p) ==
    IF forest = <<>> THEN None
    ELSE LET span == Head(forest)
             m == IF SpanContains(span, p)
                  THEN MatchAt(span, find_containing_span(span.children, p))
                  ELSE None
         IN  IF m # None THEN m
             ELSE find_containing_span(Tail(forest), p)

\* ---------------------------------------------------------------------------
\* Inputs
\* ---------------------------------------------------------------------------

\* Longest text made of ordinary bytes only
MaxLen == 5

\* Longest text over the full alphabet
MaxRichLen == 3

\* Length of the text under the two-node forests
MaxPairLen == 3

\* Heading levels 1 .. MaxLevel (1, 2, 3 have their own size, the rest share one)
MaxLevel == 4

\* Largest offset in the forests given to find_containing_span
MaxFindPos == 3

Alphabet == {"#", "\n", "a", "L", "c"}

\* A Rust str is valid UTF-8: a lead byte is followed by its continuation
\* byte and a continuation byte follows its lead byte
ValidUtf8(txt) ==
    \A i \in DOMAIN txt :
        /\ (txt[i] = "L") => (i + 1 \in DOMAIN txt /\ txt[i + 1] = "c")
        /\ (txt[i] = "c") => (i - 1 \in DOMAIN txt /\ txt[i - 1] = "L")

\* NodeKind, Heading apart
PlainKinds ==
    {"Text", "Strong", "Emph", "Code", "Math", "Link", "CodeBlock", "Table",
     "Footnote", "Strikethrough", "Image", "List", "Item", "BlockQuote",
     "Paragraph", "HtmlInline", "Other"}

\* NodeKind with its Heading payload: <<kind, level>>
KindLevels ==
    {<<k, 0>> : k \in PlainKinds} \cup {<<"Heading", l>> : l \in 1 .. MaxLevel}

MarkdownSpan(kind, lvl, s, e, children) ==
    [kind |-> kind, level |-> lvl, source_range |-> <<s, e>>, children |-> children]

\* Every childless span of the kinds in kl with offsets in 0 .. p: inverted,
\* empty and past-the-end ranges included
Leaves(kl, p) ==
    {MarkdownSpan(k[1], k[2], s, e, <<>>) : k \in kl, s \in 0 .. p, e \in 0 .. p}

\* The spans of `parents` with each one span of `children` as only child
WithChild(parents, children) ==
    {[p EXCEPT !.children = <<c>>] : p \in parents, c \in children}

\* The text of n ordinary bytes
PlainText(n) == [i \in 1 .. n |-> "a"]

\* Every text of at most n bytes over the alphabet
Texts(n) == {t \in UNION {[1 .. m -> Alphabet] : m \in 0 .. n} : ValidUtf8(t)}

\* None and Some(0) .. Some(p)
Carets(p) == {None} \cup {Some(c) : c \in 0 .. p}

\* Kinds of the second node of a two-node forest: one with caret-dependent
\* markers, one with a whole-span run
ProbeKinds == {<<"Emph", 0>>, <<"Link", 0>>}

\* (1) one span of any kind over an ordinary text
PlainInputs ==
    /\ text \in {PlainText(n) : n \in 0 .. MaxLen}
    /\ spans \in {<<>>} \cup {<<s>> : s \in Leaves(KindLevels, MaxLen + 1)}
    /\ cursor_pos \in Carets(MaxLen + 1)

\* (2) one heading over any text of the full alphabet
RichInputs ==
    /\ text \in Texts(MaxRichLen)
    /\ spans \in {<<s>> : s \in Leaves({<<"Heading", l>> : l \in 1 .. MaxLevel},
                                       MaxRichLen + 1)}
    /\ cursor_pos \in Carets(MaxRichLen + 1)

\* (3) one code block over any text of lines (ordinary bytes and newlines)
FencedInputs ==
    /\ text \in UNION {[1 .. m -> {"a", "\n"}] : m \in 0 .. MaxLen}
    /\ spans \in {<<s>> : s \in Leaves({<<"CodeBlock", 0>>}, MaxLen + 1)}
    /\ cursor_pos \in Carets(MaxLen + 1)

\* (4) a parent of any kind with one child, and two siblings, well-formed or not
PairInputs ==
    /\ text = PlainText(MaxPairLen)
    /\ spans \in
         {<<s>> : s \in WithChild(Leaves(KindLevels, MaxPairLen + 1),
                                  Leaves(ProbeKinds, MaxPairLen + 1))}
         \cup (Leaves(ProbeKinds, MaxPairLen + 1) \X Leaves(ProbeKinds, MaxPairLen + 1))
    /\ cursor_pos \in Carets(MaxPairLen + 1)

\* Kinds of the parent of a three-node forest: the List arm, the default arm
\* for a kind named in it and for a kind without a rule
FamilyKinds == {"List", "Paragraph", "Math"}

\* (5) a container over the whole text with two children, well-formed or not
FamilyInputs ==
    /\ text = PlainText(MaxPairLen)
    /\ spans \in
         {<<MarkdownSpan(k, 0, 0, MaxPairLen, <<c1, c2>>)>> :
              k \in FamilyKinds,
              c1 \in Leaves(ProbeKinds, MaxPairLen + 1),
              c2 \in Leaves(ProbeKinds, MaxPairLen + 1)}
    /\ cursor_pos \in Carets(MaxPairLen + 1)

\* ---------------------------------------------------------------------------
\* Spec: one call of compute_attribute_runs
\* ---------------------------------------------------------------------------

Init ==
    /\ call = "compute_attribute_runs"
    /\ pc = "start"
    /\ (PlainInputs \/ RichInputs \/ FencedInputs \/ PairInputs \/ FamilyInputs)
    /\ pos = 0
    /\ level = 0
    /\ runs = <<>>
    /\ found = None
    /\ attrs = <<>>
    /\ NoHost
    /\ NoApp

\* Mutant of ComputeAttributeRuns: the clamp of the guard written back into
\* the roots of the forest
ComputeAttributeRuns_ClampsInPlace ==
    /\ call = "compute_attribute_runs"
    /\ pc = "start"
    /\ IF Panics(text, spans)
       THEN pc' = "panicked" /\ runs' = runs
       ELSE pc' = "done" /\ runs' = compute_attribute_runs(text, spans, cursor_pos)
    /\ spans' = [i \in DOMAIN spans |->
                    [spans[i] EXCEPT !.source_range[2] = Min(@, Len(text))]]
    /\ UNCHANGED <<call, text, cursor_pos, pos, level, found, attrs, hostvars, appvars>>

ComputeAttributeRuns ==
    /\ call = "compute_attribute_runs"
    /\ pc = "start"
    /\ IF Panics(text, spans)
       THEN pc' = "panicked" /\ runs' = runs
       ELSE pc' = "done" /\ runs' = compute_attribute_runs(text, spans, cursor_pos)
    /\ UNCHANGED <<call, text, spans, cursor_pos, pos, level, found, attrs, hostvars, appvars>>

Next == ComputeAttributeRuns

Spec == Init /\ [][Next]_vars

\* ---------------------------------------------------------------------------
\* Properties of compute_attribute_runs
\* ---------------------------------------------------------------------------

\* rs, in its order, tiles [0, n): starts at 0, each run starts where the
\* previous one ends, the last run ends at n
IsPartition(rs, n) ==
    /\ (rs = <<>>) => (n = 0)
    /\ (rs # <<>>) => (rs[1].range[1] = 0 /\ rs[Len(rs)].range[2] = n)
    /\ \A i \in 1 .. (Len(rs) - 1) : rs[i].range[2] = rs[i + 1].range[1]

\* C1: for any text, span forest and caret, the returned runs are sorted by
\* start and exactly partition [0, text_len): no gap, no overlap.
C1_Partition ==
    (pc = "done") => IsPartition(runs, Len(text))

\* Every span of a forest, at any depth
RECURSIVE AllNodes(_)
AllNodes(forest) ==
    IF forest = <<>> THEN {}
    ELSE {Head(forest)} \cup AllNodes(Head(forest).children) \cup AllNodes(Tail(forest))

\* Kinds whose rule emits syntax-marker runs
MarkerKinds == {"Strong", "Emph", "Code", "Strikethrough", "Heading"}

IsMarkerRun(r) == r.attrs \in {syntax_hidden, syntax_visible}

\* The marker-emitting spans of the forest whose range covers the run
Owners(r) ==
    {n \in AllNodes(spans) :
        /\ n.kind \in MarkerKinds
        /\ n.source_range[1] <= r.range[1]
        /\ r.range[2] <= n.source_range[2]}

CaretWithin(n) ==
    /\ cursor_pos # None
    /\ n.source_range[1] <= cursor_pos[1]
    /\ cursor_pos[1] <= n.source_range[2]

\* C2: a syntax-marker run is hidden when the caret is absent; with a caret p
\* it is visible exactly when node.start <= p <= node.end for the node it
\* belongs to, both endpoints included, and hidden otherwise.
C2_Visibility ==
    (pc = "done") =>
        \A i \in DOMAIN runs :
            IsMarkerRun(runs[i]) =>
                /\ Owners(runs[i]) # {}
                /\ (cursor_pos = None) => (runs[i].attrs = syntax_hidden)
                /\ (runs[i].attrs = syntax_visible) =>
                       \E n \in Owners(runs[i]) : CaretWithin(n)
                /\ (runs[i].attrs = syntax_hidden) =>
                       \E n \in Owners(runs[i]) : ~CaretWithin(n)

\* A caret exactly at the end of a Strong span, whose markers are shown
C2_Witness ==
    /\ pc = "done"
    /\ Len(spans) = 1
    /\ spans[1].kind = "Strong"
    /\ cursor_pos = Some(spans[1].source_range[2])
    /\ \E i \in DOMAIN runs : runs[i].attrs = syntax_visible

\* ---------------------------------------------------------------------------
\* The degenerate-range guard
\* ---------------------------------------------------------------------------

IsSkipped(n) ==
    \/ n.source_range[1] >= n.source_range[2]
    \/ n.source_range[1] >= Len(text)

\* The spans of a forest that are not skipped and have no skipped ancestor
RECURSIVE LiveNodes(_)
LiveNodes(forest) ==
    IF forest = <<>> THEN {}
    ELSE (IF IsSkipped(Head(forest)) THEN {}
          ELSE {Head(forest)} \cup LiveNodes(Head(forest).children))
         \cup LiveNodes(Tail(forest))

\* The runs of the output that carry a style: the runs the nodes emitted (a
\* gap run is plain, an emitted run never is)
StyledRuns == SelectSeq(runs, LAMBDA r : r.attrs # plain)

\* C11: a node with start >= end or start >= text_len contributes no run, and
\* no descendant of it does: every styled run lies inside the range, clamped
\* to the text length, of a node that is neither skipped nor below a skipped
\* node; no run ends past the text length.
C11_DegenerateGuard ==
    \A i \in DOMAIN runs :
        /\ runs[i].range[2] <= Len(text)
        /\ (runs[i].attrs # plain) =>
               \E n \in LiveNodes(spans) :
                   /\ n.source_range[1] <= runs[i].range[1]
                   /\ runs[i].range[2] <= Min(n.source_range[2], Len(text))

\* An inverted parent whose only child has a proper range inside the text:
\* the call returned one plain run over the whole text
C11_Witness ==
    /\ pc = "done"
    /\ Len(spans) = 1
    /\ spans[1].source_range[1] > spans[1].source_range[2]
    /\ Len(spans[1].children) = 1
    /\ spans[1].children[1].source_range = <<0, 2>>
    /\ Len(text) = 3
    /\ runs = <<AttributeRun(0, 3, plain)>>

\* C12: for any span forest, malformed or not, compute_attribute_runs
\* completes without aborting, and a skipped node does not keep its later
\* sibling from emitting: after a skipped first root the output is that of the
\* second root alone.
C12_FailSoft ==
    /\ pc # "panicked"
    /\ (pc = "done" /\ Len(spans) = 2 /\ IsSkipped(spans[1])) =>
           runs = compute_attribute_runs(text, <<spans[2]>>, cursor_pos)

\* ---------------------------------------------------------------------------
\* Fenced code blocks
\* ---------------------------------------------------------------------------

\* Clamped end of a span
ClampedEnd(txt, n) == Min(n.source_range[2], Len(txt))

\* Offsets of the newlines among the bytes s .. e-1
NewlinesIn(txt, s, e) == {i \in s .. (e - 1) : txt[i + 1] = "\n"}

\* The lines of a fenced block: the opening fence line runs from the block's
\* start through the first newline; the closing fence line starts after the
\* last newline that is not the block's final byte.
OpeningFenceEnd(txt, n) ==
    LET nls == NewlinesIn(txt, n.source_range[1], ClampedEnd(txt, n) - 1)
    IN  1 + CHOOSE i \in nls : \A j \in nls : i <= j

ClosingFenceStart(txt, n) ==
    LET nls == NewlinesIn(txt, n.source_range[1], ClampedEnd(txt, n) - 1)
    IN  1 + CHOOSE i \in nls : \A j \in nls : j <= i

\* A code block made of a non-empty opening fence line, a body and a non-empty
\* closing fence line
IsFencedBlock(txt, n) ==
    /\ n.kind = "CodeBlock"
    /\ ~Degenerate(txt, n)
    /\ NewlinesIn(txt, n.source_range[1], ClampedEnd(txt, n) - 1) # {}
    /\ txt[n.source_range[1] + 1] # "\n"
    /\ txt[ClosingFenceStart(txt, n) + 1] # "\n"

RunsStartingAt(x) == {i \in DOMAIN runs : runs[i].range[1] = x}

CaretIn(lo, hi) ==
    cursor_pos # None /\ lo <= cursor_pos[1] /\ cursor_pos[1] < hi

\* C7: for a fenced code block with an empty body and no caret, there is a
\* Hidden run starting at the opening fence, a Hidden run starting at the
\* closing fence, and no run carries Monospace.
C7_EmptyBodyFences ==
    (/\ pc = "done"
     /\ Len(spans) = 1
     /\ IsFencedBlock(text, spans[1])
     /\ OpeningFenceEnd(text, spans[1]) = ClosingFenceStart(text, spans[1])
     /\ cursor_pos = None)
    => /\ \E i \in RunsStartingAt(spans[1].source_range[1]) :
              Contains(runs[i].attrs, Hidden)
       /\ \E i \in RunsStartingAt(ClosingFenceStart(text, spans[1])) :
              Contains(runs[i].attrs, Hidden)
       /\ \A i \in DOMAIN runs : ~Contains(runs[i].attrs, Monospace)

C9_FencesSplit ==
    (/\ pc = "done"
     /\ Len(spans) = 1
     /\ IsFencedBlock(text, spans[1])
     /\ OpeningFenceEnd(text, spans[1]) < ClosingFenceStart(text, spans[1]))
    => LET s == spans[1].source_range[1]
           o == OpeningFenceEnd(text, spans[1])
           c == ClosingFenceStart(text, spans[1])
           e == ClampedEnd(text, spans[1])
       IN  /\ \E i \in RunsStartingAt(s) : runs[i].range[2] = o
           /\ \E i \in RunsStartingAt(o) : runs[i].range[2] = c
           /\ \E i \in RunsStartingAt(c) : runs[i].range[2] = e
           /\ (cursor_pos = None \/ CaretIn(o, c)) =>
                 /\ \A i \in RunsStartingAt(s) : Contains(runs[i].attrs, Hidden)
                 /\ \A i \in RunsStartingAt(c) : Contains(runs[i].attrs, Hidden)
                 /\ \A i \in RunsStartingAt(o) :
                        /\ Contains(runs[i].attrs, Monospace)
                        /\ ~Contains(runs[i].attrs, Hidden)
           /\ CaretIn(s, o) =>
                 \A i \in RunsStartingAt(s) : ~Contains(runs[i].attrs, Hidden)
           /\ CaretIn(c, e) =>
                 \A i \in RunsStartingAt(c) : ~Contains(runs[i].attrs, Hidden)

\* ---------------------------------------------------------------------------
\* FindSpec: one call of find_containing_span
\* ---------------------------------------------------------------------------

\* NodeKind with one heading level: the query reads the kind only
FindKinds == {<<k, 0>> : k \in PlainKinds} \cup {<<"Heading", 1>>}

\* Childless spans with start <= end and offsets in 0 .. m
FindLeaves(kl, m) ==
    {n \in Leaves(kl, m) : n.source_range[1] <= n.source_range[2]}

\* Kinds of the three-level forests: one interesting, one structural
ChainKinds == {<<"Strong", 0>>, <<"Paragraph", 0>>}

\* Kinds of the child of a two-level forest
FindChildKinds == ChainKinds \cup {<<"Emph", 0>>}

\* The forests of the query, with offsets in 0 .. MaxFindPos
FindInputs ==
    \* one span, any kind, any range (inverted ones included)
    \/ spans \in {<<n>> : n \in Leaves(FindKinds, MaxFindPos)}
    \* a parent of any kind with one child, inside the parent or not
    \/ spans \in {<<n>> : n \in WithChild(FindLeaves(FindKinds, MaxFindPos),
                                          FindLeaves(FindChildKinds, MaxFindPos))}
    \* parent, child, grandchild
    \/ spans \in {<<n>> : n \in WithChild(FindLeaves(ChainKinds, MaxFindPos),
                                          WithChild(FindLeaves(ChainKinds, MaxFindPos),
                                                    FindLeaves(ChainKinds, MaxFindPos)))}
    \* two siblings, overlapping or not
    \/ spans \in FindLeaves(ChainKinds, MaxFindPos) \X FindLeaves(ChainKinds, MaxFindPos)
    \* a parent over all offsets with two children, overlapping or not
    \/ spans \in {<<MarkdownSpan(k[1], k[2], 0, MaxFindPos, <<c1, c2>>)>> :
                      k \in ChainKinds,
                      c1 \in FindLeaves(ChainKinds, MaxFindPos),
                      c2 \in FindLeaves(ChainKinds, MaxFindPos)}

FindInit ==
    /\ call = "find_containing_span"
    /\ pc = "start"
    /\ text = <<>>
    /\ FindInputs
    /\ cursor_pos = None
    /\ pos \in 0 .. (MaxFindPos + 1)
    /\ level = 0
    /\ runs = <<>>
    /\ found = None
    /\ attrs = <<>>
    /\ NoHost
    /\ NoApp

FindContainingSpan ==
    /\ call = "find_containing_span"
    /\ pc = "start"
    /\ found' = find_containing_span(spans, pos)
    /\ pc' = "done"
    /\ UNCHANGED <<call, text, spans, cursor_pos, pos, level, runs, attrs, hostvars, appvars>>

FindNext == FindContainingSpan

FindSpec == FindInit /\ [][FindNext]_vars

\* The kinds the query never returns
StructuralKinds == {"Text", "Paragraph", "List", "Item", "HtmlInline", "Other"}

\* Span n is interesting and its range contains p, both endpoints included
InterestingAt(n, p) ==
    /\ n.kind \notin StructuralKinds
    /\ n.source_range[1] <= p
    /\ p <= n.source_range[2]

\* The parser contract on nesting: every child's range lies inside its parent's
RECURSIVE WellNested(_)
WellNested(forest) ==
    \A i \in DOMAIN forest :
        /\ \A j \in DOMAIN forest[i].children :
               /\ forest[i].source_range[1] <= forest[i].children[j].source_range[1]
               /\ forest[i].children[j].source_range[2] <= forest[i].source_range[2]
        /\ WellNested(forest[i].children)

\* The returned span is a span of the forest, interesting, contains pos, and
\* none of its descendants is interesting and contains pos
IsInnermostMatch ==
    /\ found[1] \in AllNodes(spans)
    /\ InterestingAt(found[1], pos)
    /\ \A d \in AllNodes(found[1].children) : ~InterestingAt(d, pos)

\* C4 as stated: for any forest, the span returned by find_containing_span is
\* interesting, contains pos, and no interesting descendant of it contains pos.
C4_Innermost ==
    (pc = "done" /\ found # None) => IsInnermostMatch

\* C4 amended: the same, for a forest in which every child's range lies inside
\* its parent's range.
C4_InnermostWellNested ==
    (pc = "done" /\ found # None /\ WellNested(spans)) => IsInnermostMatch

\* An interesting child returned in preference to its interesting parent
C4_Witness ==
    /\ pc = "done"
    /\ WellNested(spans)
    /\ found # None
    /\ Len(spans) = 1
    /\ InterestingAt(spans[1], pos)
    /\ found[1] \in AllNodes(spans[1].children)

\* C5: under the nesting contract, find_containing_span returns none exactly
\* when no interesting span of the forest contains pos; for any forest it
\* returns none when pos lies past the end of every span.
C5_NoneIffNoMatch ==
    (pc = "done") =>
        /\ WellNested(spans) =>
               ((found = None) <=> ~\E n \in AllNodes(spans) : InterestingAt(n, pos))
        /\ (\A n \in AllNodes(spans) : pos > n.source_range[2]) => (found = None)

\* None is returned although a (structural) span contains pos
C5_Witness ==
    /\ pc = "done"
    /\ WellNested(spans)
    /\ found = None
    /\ \E n \in AllNodes(spans) :
           n.source_range[1] <= pos /\ pos <= n.source_range[2]

\* ---------------------------------------------------------------------------
\* AttrSpec: one call of an AttributeSet constructor
\* ---------------------------------------------------------------------------

\* The values of a u8
U8 == 0 .. 255

AttrInit ==
    /\ \/ call = "for_heading" /\ level \in U8
       \/ call = "for_code_block" /\ level = 0
    /\ pc = "start"
    /\ text = <<>>
    /\ spans = <<>>
    /\ cursor_pos = None
    /\ pos = 0
    /\ runs = <<>>
    /\ found = None
    /\ attrs = <<>>
    /\ NoHost
    /\ NoApp

ForHeading ==
    /\ call = "for_heading"
    /\ pc = "start"
    /\ attrs' = for_heading(level)
    /\ pc' = "done"
    /\ UNCHANGED <<call, text, spans, cursor_pos, pos, level, runs, found, hostvars, appvars>>

ForCodeBlock ==
    /\ call = "for_code_block"
    /\ pc = "start"
    /\ attrs' = for_code_block
    /\ pc' = "done"
    /\ UNCHANGED <<call, text, spans, cursor_pos, pos, level, runs, found, hostvars, appvars>>

AttrNext == ForHeading \/ ForCodeBlock

AttrSpec == AttrInit /\ [][AttrNext]_vars

\* The size table of the claim
ClaimedHeadingSize ==
    IF level = 1 THEN 32 ELSE IF level = 2 THEN 26 ELSE IF level = 3 THEN 21 ELSE 16

\* C6: for_heading(level) carries FontSize 32 / 26 / 21 for levels 1 / 2 / 3
\* and 16 for any other level, always Bold and ForegroundColor("heading"),
\* and HeadingSeparator if and only if level <= 2.
C6_ForHeading ==
    (call = "for_heading" /\ pc = "done") =>
        /\ Contains(attrs, FontSize(ClaimedHeadingSize))
        /\ \A i \in DOMAIN attrs :
               (attrs[i].tag = "FontSize") => (attrs[i].num = ClaimedHeadingSize)
        /\ Contains(attrs, Bold)
        /\ Contains(attrs, ForegroundColor("heading"))
        /\ Contains(attrs, HeadingSeparator) <=> (level <= 2)

\* for_heading(3): its own size, no separator
C6_Witness ==
    /\ call = "for_heading"
    /\ pc = "done"
    /\ level = 3
    /\ Contains(attrs, FontSize(21))
    /\ ~Contains(attrs, HeadingSeparator)

\* C10: for_code_block contains Monospace and does not contain
\* BackgroundColor("code_block_bg").
C10_CodeBlockNoBackground ==
    (call = "for_code_block" /\ pc = "done") =>
        /\ Contains(attrs, Monospace)
        /\ ~Contains(attrs, BackgroundColor("code_block_bg"))

\* ---------------------------------------------------------------------------
\* PureSpec: one call of either function of the rendering core
\* ---------------------------------------------------------------------------

PureInit == Init \/ FindInit

PureNext == ComputeAttributeRuns \/ FindContainingSpan

PureSpec == PureInit /\ [][PureNext]_vars

\* C13: compute_attribute_runs and find_containing_span leave their inputs as
\* they were: the text, the span forest (each span's kind, range and children)
\* and the caret position are the same after the call as before it.
C13_InputsUnchanged ==
    [][/\ text' = text
       /\ spans' = spans
       /\ cursor_pos' = cursor_pos
       /\ pos' = pos]_vars

\* A call of compute_attribute_runs returned for a span reaching past the end
\* of the text, which the call clamped for its own use
C13_Witness ==
    /\ call = "compute_attribute_runs"
    /\ pc = "done"
    /\ Len(spans) = 1
    /\ spans[1].source_range[2] > Len(text)
    /\ \E i \in DOMAIN runs :
           runs[i].attrs # plain /\ runs[i].range[2] = Len(text)

\* ---------------------------------------------------------------------------
\* editor/apply.rs, as far as the delegate reads its result
\* ---------------------------------------------------------------------------

\* byte_to_utf16: the UTF-16 length of the first byte_pos bytes, clamped to the
\* text; a one-byte and a two-byte character are one UTF-16 unit each, so the
\* continuation bytes do not count
byte_to_utf16(txt, byte_pos) ==
    Cardinality({i \in 1 .. Min(byte_pos, Len(txt)) : txt[i] # "c"})

\* `!text[..start].trim().is_empty()`: of the modelled bytes only the newline
\* is white space
has_content_before(txt, start) == \E i \in 1 .. start : txt[i] # "\n"

\* The loop of apply_attribute_runs over the runs, as far as it builds the
\* returned positions
RECURSIVE HeadingSepLoop(_, _, _)
HeadingSepLoop(txt, rs, positions) ==
    IF rs = <<>> THEN positions
    ELSE LET run       == Head(rs)
             start_u16 == byte_to_utf16(txt, run.range[1])
             end_u16   == byte_to_utf16(txt, run.range[2])
         IN  IF start_u16 >= end_u16 \/ end_u16 > byte_to_utf16(txt, Len(txt))
             THEN HeadingSepLoop(txt, Tail(rs), positions)
             ELSE IF /\ Contains(run.attrs, HeadingSeparator)
                     /\ has_content_before(txt, run.range[1])
                  THEN HeadingSepLoop(txt, Tail(rs), Append(positions, start_u16))
                  ELSE HeadingSepLoop(txt, Tail(rs), positions)

\* apply_attribute_runs: its return value (the attributes it sets on the
\* storage are the runs it is given)
apply_attribute_runs(txt, rs) ==
    IF byte_to_utf16(txt, Len(txt)) = 0 THEN <<>>
    ELSE HeadingSepLoop(txt, rs, <<>>)

\* collect_code_block_infos(&spans, &text): the function is not part of the
\* source tree; its result is kept as the call itself
collect_code_block_infos(forest, txt) == <<"collect_code_block_infos", forest, txt>>

\* ---------------------------------------------------------------------------
\* HostSpec: the editor delegate (editor/text_storage.rs) under the callbacks
\* of the text storage and of the text view (app.rs)
\* ---------------------------------------------------------------------------

\* Longest text typed into the editor
MaxHostLen == 2

\* Kinds of the spans the parser hands to the delegate in the editor model
HostKinds == {<<"Emph", 0>>, <<"Heading", 1>>}

\* The texts of at most n one-byte characters, newlines among them
HostTexts(n) == UNION {[1 .. m -> {"a", "\n"}] : m \in 0 .. n}

\* markdown::parser::parse: comrak's parse_document is outside the source
\* tree, so a parse yields any forest whose ranges node_to_span could have
\* built: offsets in order and clamped to the length of the source
parse(source) ==
    {<<>>}
    \cup {<<MarkdownSpan(k[1], k[2], r[1], r[2], <<>>)>> :
              k \in HostKinds,
              r \in {q \in (0 .. Len(source)) \X (0 .. Len(source)) : q[1] <= q[2]}}

\* The selected ranges of a text of n characters (one byte each)
Selections(n) == {<<loc, len>> : loc \in 0 .. n, len \in 0 .. n} \cap
                 {r \in (0 .. n) \X (0 .. n) : r[1] + r[2] <= n}

\* MditEditorDelegate::new, an empty text storage, the toolbar not yet shown
HostInit ==
    /\ call = "host"
    /\ pc = "idle"
    /\ text = <<>>
    /\ spans = <<>>
    /\ cursor_pos = None
    /\ pos = 0
    /\ level = 0
    /\ runs = <<>>
    /\ found = None
    /\ attrs = <<>>
    /\ NoHost
    /\ NoApp

\* The user edits the characters of the text storage: the storage holds
\* `source` and is about to tell its delegate; the text view keeps its
\* selection inside the new text
EditCharacters ==
    /\ call = "host"
    /\ pc = "idle"
    /\ pending = None
    /\ \E source \in HostTexts(MaxHostLen) :
           /\ text' = source
           /\ selection' = <<Min(selection[1], Len(source)),
                             Min(selection[2],
                                 Len(source) - Min(selection[1], Len(source)))>>
    /\ pending' = Some([edited_characters |-> TRUE])
    /\ UNCHANGED <<call, pc, spans, cursor_pos, pos, level, runs, found, attrs,
                   toolbar, applying, heading_sep_positions, code_block_infos,
                   appvars>>

\* The attributes of the text storage are edited: by apply_attribute_runs
\* while the delegate applies (the storage then reports that edit alone or
\* together with the character edit under way), or from elsewhere while the
\* delegate is idle
EditAttributes ==
    /\ call = "host"
    /\ pc \in {"idle", "applying"}
    /\ pending = None
    /\ \E edited_characters \in BOOLEAN :
           /\ (pc = "idle") => ~edited_characters
           /\ pending' = Some([edited_characters |-> edited_characters])
    /\ UNCHANGED <<call, pc, text, spans, cursor_pos, pos, level, runs, found,
                   attrs, selection, toolbar, applying, heading_sep_positions,
                   code_block_infos, appvars>>

\* Lines 64-81 of did_process_editing and 143-153 of reapply: the runs are
\* computed from the given spans and the stored caret, and the delegate
\* enters apply_attribute_runs with the flag set
EnterApply(new_spans) ==
    /\ spans' = new_spans
    /\ IF Panics(text, new_spans)
       THEN pc' = "panicked" /\ runs' = runs /\ applying' = applying
       ELSE /\ pc' = "applying"
            /\ runs' = compute_attribute_runs(text, new_spans, cursor_pos)
            /\ applying' = TRUE

\* Mutant of DidProcessEditing: the guard on the applying flag left out
DidProcessEditing_NoApplyingGuard ==
    /\ call = "host"
    /\ pc \in {"idle", "applying"}
    /\ pending # None
    /\ pending' = None
    /\ IF ~pending[1].edited_characters
       THEN UNCHANGED <<pc, spans, runs, applying>>
       ELSE \E new_spans \in parse(text) : EnterApply(new_spans)
    /\ UNCHANGED <<call, text, cursor_pos, pos, level, found, attrs, selection,
                   toolbar, heading_sep_positions, code_block_infos, appvars>>

\* textStorage:didProcessEditing:range:changeInLength: up to the call of
\* apply_attribute_runs. An attribute-only edit, or a callback while the
\* delegate applies attributes, returns at once; otherwise the text is parsed
\* anew and the runs are computed and applied.
DidProcessEditing ==
    /\ call = "host"
    /\ pc \in {"idle", "applying"}
    /\ pending # None
    /\ pending' = None
    /\ IF ~pending[1].edited_characters \/ applying
       THEN UNCHANGED <<pc, spans, runs, applying>>
       ELSE \E new_spans \in parse(text) : EnterApply(new_spans)
    /\ UNCHANGED <<call, text, cursor_pos, pos, level, found, attrs, selection,
                   toolbar, heading_sep_positions, code_block_infos, appvars>>

\* MditEditorDelegate::reapply up to the call of apply_attribute_runs, as
\* apply_scheme calls it for the active tab: nothing for an empty text,
\* otherwise the runs are computed from the cached spans, without a parse
Reapply ==
    /\ call = "host"
    /\ pc = "idle"
    /\ pending = None
    /\ IF text = <<>>
       THEN UNCHANGED <<pc, spans, runs, applying>>
       ELSE EnterApply(spans)
    /\ UNCHANGED <<call, text, cursor_pos, pos, level, found, attrs, selection,
                   toolbar, pending, heading_sep_positions, code_block_infos,
                   appvars>>

\* apply_attribute_runs returns to did_process_editing (lines 83-89) or to
\* reapply (lines 155-161): the flag is cleared, the positions and the code
\* block infos are stored
ApplyReturns ==
    /\ call = "host"
    /\ pc = "applying"
    /\ pending = None
    /\ applying' = FALSE
    /\ heading_sep_positions' = apply_attribute_runs(text, runs)
    /\ code_block_infos' = collect_code_block_infos(spans, text)
    /\ pc' = "idle"
    /\ UNCHANGED <<call, text, spans, cursor_pos, pos, level, runs, found, attrs,
                   selection, toolbar, pending, appvars>>

\* textViewDidChangeSelection: the toolbar is shown for a selection of some
\* length and hidden for a bare caret; the delegate is not told
TextViewDidChangeSelection ==
    /\ call = "host"
    /\ pc = "idle"
    /\ pending = None
    /\ \E sel_range \in Selections(Len(text)) :
           /\ sel_range # selection
           /\ selection' = sel_range
           /\ toolbar' = IF sel_range[2] > 0 THEN "shown" ELSE "hidden"
    /\ UNCHANGED <<call, pc, text, spans, cursor_pos, pos, level, runs, found,
                   attrs, applying, pending, heading_sep_positions,
                   code_block_infos, appvars>>

HostNext ==
    \/ EditCharacters
    \/ EditAttributes
    \/ DidProcessEditing
    \/ Reapply
    \/ ApplyReturns
    \/ TextViewDidChangeSelection

HostSpec == HostInit /\ [][HostNext]_vars

\* C14: a caret-only move (the selection changes, the text does not) leaves
\* the cached span tree as it was, and the runs applied after it are those of
\* compute_attribute_runs(text, cached spans, new caret).
C14_CaretMoveRecompiles ==
    [][(selection' # selection /\ selection'[2] = 0 /\ text' = text) =>
           /\ spans' = spans
           /\ runs' = compute_attribute_runs(text, spans, Some(selection'[1]))]_vars

\* C25: a didProcessEditing callback that arrives while attributes are being
\* applied, or whose edit mask lacks EditedCharacters, changes nothing: no
\* parse, no compiler call, spans, runs, heading positions and code block
\* infos as before; the applying flag is set exactly while the delegate is
\* inside apply_attribute_runs, so it is false whenever no callback executes
\* and application never starts again from within itself.
C25_ReentrancyGuard ==
    /\ [](applying <=> (pc = "applying"))
    /\ [][(pending # None /\ (applying \/ ~pending[1].edited_characters)) =>
              /\ pending' = None
              /\ UNCHANGED <<pc, text, spans, runs, applying,
                             heading_sep_positions, code_block_infos>>]_vars

\* The storage reports an edit with EditedCharacters while the delegate is
\* applying the runs of a heading
C25_Witness ==
    /\ call = "host"
    /\ applying
    /\ pending = Some([edited_characters |-> TRUE])
    /\ Len(spans) = 1
    /\ spans[1].kind = "Heading"
    /\ runs # <<>>

\* ---------------------------------------------------------------------------
\* Per-kind emission rules of compute_attribute_runs (checked under Spec)
\* ---------------------------------------------------------------------------

\* The forest is one span of the given kind
OnlySpan(kind) == Len(spans) = 1 /\ spans[1].kind = kind

\* A styled run that is not a syntax marker
IsContentRun(r) == r.attrs \notin {plain, syntax_hidden, syntax_visible}

HasSeparator(r) == \E j \in DOMAIN r.attrs : r.attrs[j].tag = "HeadingSeparator"

\* C15: the content run of a heading carries HeadingSeparator when the level
\* is 1 or 2, whatever precedes the heading in the text, and never when the
\* level is 3 or more.
C15_SeparatorByLevelOnly ==
    (pc = "done" /\ OnlySpan("Heading")) =>
        \A i \in DOMAIN runs :
            IsContentRun(runs[i]) =>
                (HasSeparator(runs[i]) <=> spans[1].level \in {1, 2})

\* A level-2 heading after an ordinary byte of the same text, its content run
\* with the separator
C15_Witness ==
    /\ pc = "done"
    /\ OnlySpan("Heading")
    /\ spans[1].level = 2
    /\ spans[1].source_range[1] = 1
    /\ Len(text) >= 2
    /\ text[1] = "a"
    /\ \E i \in DOMAIN runs : IsContentRun(runs[i]) /\ HasSeparator(runs[i])

\* Marker length and interior style of the delimited inline kinds
DelimiterLen(kind) == IF kind \in {"Strong", "Strikethrough"} THEN 2 ELSE 1

InteriorStyle(kind) ==
    CASE kind = "Strong" -> for_strong
      [] kind = "Strikethrough" -> for_strikethrough
      [] kind = "Emph" -> for_emph
      [] kind = "Code" -> for_inline_code

\* The marker style for the only span of the forest
MarkerStyle == IF CaretWithin(spans[1]) THEN syntax_visible ELSE syntax_hidden

RangesDisjoint(a, b) == a.range[2] <= b.range[1] \/ b.range[2] <= a.range[1]

\* The runs a delimited span [s, e) with markers of length k is to emit
DelimitedRuns(s, e, k, kind) ==
    {AttributeRun(s, s + k, MarkerStyle), AttributeRun(e - k, e, MarkerStyle)}
    \cup (IF s + k < e - k
          THEN {AttributeRun(s + k, e - k, InteriorStyle(kind))}
          ELSE {})

\* C16 (first half): a non-degenerate Strong, Strikethrough, Emph or Code span
\* emits a marker run [start, start+k), a marker run [end-k, end) and, when
\* start+k < end-k, one interior run [start+k, end-k) in the style of its
\* kind, with k = min(m, span length).
C16_MarkersAndInterior ==
    (/\ pc = "done"
     /\ Len(spans) = 1
     /\ spans[1].kind \in {"Strong", "Strikethrough", "Emph", "Code"}
     /\ ~IsSkipped(spans[1])) =>
        LET s == spans[1].source_range[1]
            e == ClampedEnd(text, spans[1])
            k == Min(DelimiterLen(spans[1].kind), e - s)
        IN  /\ \A r \in DelimitedRuns(s, e, k, spans[1].kind) :
                   \E i \in DOMAIN StyledRuns : StyledRuns[i] = r
            /\ \A i \in DOMAIN StyledRuns :
                   StyledRuns[i] \in DelimitedRuns(s, e, k, spans[1].kind)
            /\ Len(StyledRuns) = IF s + k < e - k THEN 3 ELSE 2

\* C16: the delimited inline kinds emit their two marker runs and, when an
\* interior remains, exactly one interior run, and the runs emitted by one
\* node do not overlap each other.
C16_DelimitedNoOverlap ==
    /\ C16_MarkersAndInterior
    /\ (pc = "done" /\ Len(spans) = 1
        /\ spans[1].kind \in {"Strong", "Strikethrough", "Emph", "Code"}) =>
           \A i, j \in DOMAIN StyledRuns :
               (i # j) => RangesDisjoint(StyledRuns[i], StyledRuns[j])

\* The byte at offset i of the text
ByteAt(i) == text[i + 1]

\* C17: a non-degenerate heading whose first byte is '#' emits one marker run
\* [start, start+p) with p = min(level + 1, span length) and, only when
\* start+p < end, one run [start+p, end) carrying for_heading(level); nothing
\* else.
C17_AtxHeading ==
    (/\ pc = "done"
     /\ OnlySpan("Heading")
     /\ ~IsSkipped(spans[1])
     /\ ByteAt(spans[1].source_range[1]) = "#") =>
        LET s == spans[1].source_range[1]
            e == ClampedEnd(text, spans[1])
            p == Min(spans[1].level + 1, e - s)
        IN  StyledRuns =
                <<AttributeRun(s, s + p, MarkerStyle)>>
                \o (IF s + p < e
                    THEN <<AttributeRun(s + p, e, for_heading(spans[1].level))>>
                    ELSE <<>>)

\* "# a" style input: a level-1 ATX heading with a two-byte prefix and content
C17_Witness ==
    /\ pc = "done"
    /\ OnlySpan("Heading")
    /\ spans[1].level = 1
    /\ spans[1].source_range = <<0, 3>>
    /\ Len(text) = 3
    /\ ByteAt(0) = "#"
    /\ Len(StyledRuns) = 2
    /\ StyledRuns[2].range = <<2, 3>>

\* Offset of the last newline among the bytes s .. e-1 (-1 when there is none)
LastNewline(s, e) ==
    LET nls == {i \in s .. (e - 1) : ByteAt(i) = "\n"}
    IN  IF nls = {} THEN -1 ELSE CHOOSE i \in nls : \A j \in nls : j <= i

\* The runs a setext heading [s, e) of the given level is to emit
SetextRuns(s, e, lvl) ==
    LET nl == LastNewline(s, e)
    IN  IF nl = -1 THEN <<AttributeRun(s, e, for_heading(lvl))>>
        ELSE (IF s < nl THEN <<AttributeRun(s, nl, for_heading(lvl))>> ELSE <<>>)
             \o <<AttributeRun(nl, e, MarkerStyle)>>

IsSetextCall ==
    /\ OnlySpan("Heading")
    /\ ~IsSkipped(spans[1])
    /\ ByteAt(spans[1].source_range[1]) # "#"

\* C18 (for the calls that return): the runs of a setext heading are the
\* for_heading run before the last newline, omitted when empty, and the marker
\* run from that newline to the end; without a newline one for_heading run.
C18_SetextWhenReturned ==
    (pc = "done" /\ IsSetextCall) =>
        StyledRuns = SetextRuns(spans[1].source_range[1],
                                ClampedEnd(text, spans[1]), spans[1].level)

\* C18: for a non-degenerate heading whose first byte is not '#', once the
\* call is over: if the clamped span contains a newline, the bytes before the
\* last newline form one for_heading run (omitted when empty) and the bytes
\* from that newline to the span end form one marker run; if it contains no
\* newline the whole span is one for_heading run.
C18_Setext ==
    (pc \in {"done", "panicked"} /\ IsSetextCall) =>
        StyledRuns = SetextRuns(spans[1].source_range[1],
                                ClampedEnd(text, spans[1]), spans[1].level)

\* The elements of a sequence, as a set
Range(seq) == {seq[i] : i \in DOMAIN seq}

\* The styled runs of the output for the forest f alone
StyledRunsOf(f) ==
    SelectSeq(compute_attribute_runs(text, f, cursor_pos), LAMBDA r : r.attrs # plain)

\* End of the marker of item n, whose clamped end is e
MarkerEnd(n, e) ==
    IF n.children # <<>>
    THEN Min(n.children[1].source_range[1], e)
    ELSE Min(n.source_range[1] + 2, e)

\* C19: a non-degenerate Item emits one for_list_marker run [item.start, e),
\* e = min(first_child.start, item end) with a child and min(item.start + 2,
\* item end) without, omitted when e <= item.start, the same for every caret;
\* the other runs are those of its children.
C19_ItemMarker ==
    (pc = "done" /\ OnlySpan("Item") /\ ~IsSkipped(spans[1])) =>
        LET s == spans[1].source_range[1]
            e == MarkerEnd(spans[1], ClampedEnd(text, spans[1]))
            marker == IF e <= s THEN <<>>
                      ELSE <<AttributeRun(s, e, <<ListMarker,
                                                   ForegroundColor("list_marker")>>)>>
            below == StyledRunsOf(spans[1].children)
        IN  /\ Range(StyledRuns) = Range(marker) \cup Range(below)
            /\ Len(StyledRuns) = Len(marker) + Len(below)

\* An item over the whole three-byte text whose child starts at offset 1: the
\* marker run is [0, 1), under a caret inside the item
C19_Witness ==
    /\ pc = "done"
    /\ OnlySpan("Item")
    /\ spans[1].source_range = <<0, 3>>
    /\ Len(spans[1].children) = 1
    /\ spans[1].children[1].source_range = <<1, 3>>
    /\ cursor_pos = Some(0)
    /\ \E i \in DOMAIN runs :
           runs[i] = AttributeRun(0, 1, <<ListMarker, ForegroundColor("list_marker")>>)

WholeSpanKinds == {"Link", "BlockQuote", "Table", "Footnote"}

WholeSpanStyle(kind) ==
    CASE kind \in {"Link", "Footnote"} -> <<ForegroundColor("link")>>
      [] kind = "BlockQuote" -> <<BlockquoteBar, ForegroundColor("blockquote")>>
      [] kind = "Table" -> for_code_block

\* C20: a non-degenerate Link, BlockQuote, Table or Footnote emits exactly one
\* run, over its whole clamped range, in the style of its kind (the link style
\* for Link and Footnote, the blockquote style, the code-block style for
\* Table), the same for every caret; no descendant of it emits a run.
C20_WholeSpan ==
    (/\ pc = "done"
     /\ Len(spans) = 1
     /\ spans[1].kind \in WholeSpanKinds
     /\ ~IsSkipped(spans[1])) =>
        StyledRuns = <<AttributeRun(spans[1].source_range[1],
                                    ClampedEnd(text, spans[1]),
                                    WholeSpanStyle(spans[1].kind))>>

\* A block quote reaching past the end of the text, with an Emph child inside
\* it and the caret inside both: one run, clamped, and none from the child
C20_Witness ==
    /\ pc = "done"
    /\ OnlySpan("BlockQuote")
    /\ spans[1].source_range = <<0, 4>>
    /\ Len(text) = 3
    /\ Len(spans[1].children) = 1
    /\ spans[1].children[1].kind = "Emph"
    /\ spans[1].children[1].source_range = <<0, 3>>
    /\ cursor_pos = Some(1)
    /\ runs = <<AttributeRun(0, 3, <<BlockquoteBar, ForegroundColor("blockquote")>>)>>

\* Kinds whose arm only walks the children
ContainerKinds == {"List", "Text", "Paragraph", "HtmlInline", "Other", "Math", "Image"}

\* The styled runs of the children of n, each child compiled on its own, one
\* child after the other
RECURSIVE RunsOfEach(_)
RunsOfEach(children) ==
    IF children = <<>> THEN <<>>
    ELSE StyledRunsOf(<<Head(children)>>) \o RunsOfEach(Tail(children))

\* C21: a non-degenerate node of a container kind (List, Text, Paragraph,
\* HtmlInline, Other, or a kind without a rule: Math, Image) emits no run of
\* its own: the styled runs of the output are the runs of its children, taken
\* in document order (and then ordered by start, as every output is).
C21_Containers ==
    (/\ pc = "done"
     /\ Len(spans) = 1
     /\ spans[1].kind \in ContainerKinds
     /\ ~IsSkipped(spans[1])) =>
        StyledRuns = SortByStart(RunsOfEach(spans[1].children))

\* A paragraph with an Emph child and then a Link child that start at the same
\* offset: the Emph marker comes before the link run, and nothing is emitted
\* for the paragraph itself
C21_Witness ==
    /\ pc = "done"
    /\ OnlySpan("Paragraph")
    /\ Len(spans[1].children) = 2
    /\ spans[1].children[1].kind = "Emph"
    /\ spans[1].children[1].source_range = <<0, 3>>
    /\ spans[1].children[2].kind = "Link"
    /\ spans[1].children[2].source_range = <<0, 3>>
    /\ Len(runs) = 4
    /\ runs[1].range = <<0, 1>>
    /\ runs[2].range = <<0, 3>>

\* Run r covers byte b
Covers(r, b) == r.range[1] <= b /\ b < r.range[2]

\* Byte b lies under a run some node emitted
UnderStyledRun(b) == \E i \in DOMAIN runs : runs[i].attrs # plain /\ Covers(runs[i], b)

\* The plain runs of the output that cover byte b
PlainRunsOver(b) == {i \in DOMAIN runs : runs[i].attrs = plain /\ Covers(runs[i], b)}

\* C22: in the output, every byte of [0, text_len) that no node-emitted run
\* covers lies in exactly one plain run, a plain run covers only bytes that no
\* node-emitted run covers, and every byte is covered by at least one run.
C22_GapFilling ==
    (pc = "done") =>
        \A b \in 0 .. (Len(text) - 1) :
            /\ ~UnderStyledRun(b) => Cardinality(PlainRunsOver(b)) = 1
            /\ UnderStyledRun(b) => PlainRunsOver(b) = {}
            /\ \E i \in DOMAIN runs : Covers(runs[i], b)

\* A link in the middle of a three-byte text: a plain run before it and a
\* plain run after it
C22_Witness ==
    /\ pc = "done"
    /\ OnlySpan("Link")
    /\ spans[1].source_range = <<1, 2>>
    /\ Len(text) = 3
    /\ Len(runs) = 3
    /\ runs[1] = AttributeRun(0, 1, plain)
    /\ runs[3] = AttributeRun(2, 3, plain)

\* ---------------------------------------------------------------------------
\* Siblings in the cursor query (checked under FindSpec)
\* ---------------------------------------------------------------------------

\* The two siblings of the forest under scrutiny: the two roots, or the two
\* children of the only root
Siblings ==
    IF Len(spans) = 2 THEN spans
    ELSE IF Len(spans) = 1 /\ Len(spans[1].children) = 2 THEN spans[1].children
    ELSE <<>>

\* The parser contract on siblings: proper ranges, in order, not overlapping
\* as half-open ranges
SiblingContract ==
    /\ Siblings # <<>>
    /\ \A i \in DOMAIN Siblings : Siblings[i].source_range[1] < Siblings[i].source_range[2]
    /\ Siblings[1].source_range[2] <= Siblings[2].source_range[1]
    /\ WellNested(spans)

\* The containment test of the query: both endpoints included
PassesTest(n) == n.source_range[1] <= pos /\ pos <= n.source_range[2]

\* C23, as claimed: under the parser contract at most one sibling of a level
\* passes the containment test for a given position.
C23_AtMostOneSibling ==
    (pc = "done" /\ SiblingContract) =>
        Cardinality({i \in DOMAIN Siblings : PassesTest(Siblings[i])}) <= 1

\* C23, amended: under the parser contract two siblings pass the containment
\* test for the same position only at the boundary they share (the end of the
\* first, the start of the second), and then, as whenever a sibling yields an
\* interesting match, the result comes from the earliest sibling in document
\* order that yields one.
C23_SharedBoundaryEarliestWins ==
    (pc = "done" /\ SiblingContract) =>
        LET hits == {i \in DOMAIN Siblings : InterestingAt(Siblings[i], pos)}
        IN  /\ (PassesTest(Siblings[1]) /\ PassesTest(Siblings[2])) =>
                   (pos = Siblings[1].source_range[2] /\ pos = Siblings[2].source_range[1])
            /\ (hits # {}) =>
                   found = Some(Siblings[CHOOSE i \in hits : \A j \in hits : i <= j])

\* Two adjacent Strong siblings and the position on their shared boundary:
\* both pass the test, the first is returned
C23_Witness ==
    /\ pc = "done"
    /\ Len(spans) = 2
    /\ spans[1].kind = "Strong" /\ spans[2].kind = "Strong"
    /\ spans[1].source_range = <<0, 1>>
    /\ spans[2].source_range = <<1, 2>>
    /\ pos = 1
    /\ found = Some(spans[1])

\* ---------------------------------------------------------------------------
\* Shape of the output of compute_attribute_runs (checked under Spec)
\* ---------------------------------------------------------------------------

\* C24: every run of the output is maximal: no two consecutive runs that touch
\* (the first ends where the second starts) carry the same attribute set.
C24_RunsMaximal ==
    (pc = "done") =>
        \A i \in 1 .. (Len(runs) - 1) :
            (runs[i].range[2] = runs[i + 1].range[1]) =>
                (runs[i].attrs # runs[i + 1].attrs)

\* Every caret value that can tell two positions of the text apart
AllCarets == {None} \cup {Some(c) : c \in 0 .. (Len(text) + 1)}

\* Two outputs have the same ranges in the same order and, run by run, the
\* same attributes or the two marker styles
SameUpToMarkerVisibility(a, b) ==
    /\ Len(a) = Len(b)
    /\ \A i \in DOMAIN a :
           /\ a[i].range = b[i].range
           /\ \/ a[i].attrs = b[i].attrs
              \/ {a[i].attrs, b[i].attrs} = {syntax_hidden, syntax_visible}

\* C27: for a fixed text and span forest the sequence of run ranges is the
\* same for every caret value, and the results for two carets differ only in
\* marker runs that are hidden in one and visible in the other.
C27_CaretIndependentRanges ==
    (pc = "done") =>
        \A c \in AllCarets :
            SameUpToMarkerVisibility(runs, compute_attribute_runs(text, spans, c))

\* A call with the caret inside a Strong span whose markers are shown, while
\* the call without a caret hides them
C27_Witness ==
    /\ pc = "done"
    /\ OnlySpan("Strong")
    /\ spans[1].source_range = <<0, 5>>
    /\ Len(text) = 5
    /\ cursor_pos = Some(2)
    /\ runs[1].attrs = syntax_visible
    /\ compute_attribute_runs(text, spans, None)[1].attrs = syntax_hidden

\* ---------------------------------------------------------------------------
\* AppSpec: the tab list of the application (app.rs)
\* ---------------------------------------------------------------------------
\* A DocumentState is a record [doc, text, url, is_dirty, scheme, rendered]:
\* doc names the instance, text is the string of its text storage, scheme the
\* colour scheme held by its editor delegate, rendered the Option of the
\* scheme the attributes now on its storage were applied with (None while the
\* storage is empty and carries no attributes).

\* Most tabs open at once
MaxTabs == 3

\* ColorScheme::light(), ColorScheme::dark()
Schemes == {"light", "dark"}

\* What the tab code tells apart in a document's text: empty or not
DocTexts == {<<>>, <<"a">>}

\* The answers of show_save_alert
SaveChoices == {"Save", "DontSave", "Cancel"}

\* DocumentState::new_empty
new_empty(doc, scheme) ==
    [doc |-> doc, text |-> <<>>, url |-> None, is_dirty |-> FALSE,
     scheme |-> scheme, rendered |-> None]

\* A name for a new DocumentState instance: one no open tab bears
FreshDoc == CHOOSE d \in 1 .. (MaxTabs + 1) : \A i \in DOMAIN tabs : tabs[i].doc # d

\* Vec::remove(index), index counted from 0
Remove(seq, index) ==
    [i \in 1 .. (Len(seq) - 1) |-> IF i <= index THEN seq[i] ELSE seq[i + 1]]

\* applicationDidFinishLaunching: add_empty_tab, then apply_scheme with the
\* detected scheme
AppInit ==
    /\ call = "app"
    /\ pc = "idle"
    /\ text = <<>>
    /\ spans = <<>>
    /\ cursor_pos = None
    /\ pos = 0
    /\ level = 0
    /\ runs = <<>>
    /\ found = None
    /\ attrs = <<>>
    /\ NoHost
    /\ \E initial_scheme \in Schemes : tabs = <<new_empty(1, initial_scheme)>>
    /\ active_index = 0
    /\ save_choice = None

\* The variables the tab operations never touch
AppFrame ==
    UNCHANGED <<call, pc, text, spans, cursor_pos, pos, level, runs, found, attrs,
                selection, applying, pending, heading_sep_positions,
                code_block_infos>>

\* switch_to_tab(index): the index becomes the active one, the toolbar is hidden
switch_to_tab(index) ==
    /\ active_index' = index
    /\ toolbar' = "hidden"

\* add_empty_tab: the new tab takes the scheme of the first tab, is pushed and
\* activated
AddEmptyTab ==
    /\ call = "app"
    /\ Len(tabs) < MaxTabs
    /\ LET scheme == IF tabs # <<>> THEN tabs[1].scheme ELSE "light"
       IN  tabs' = Append(tabs, new_empty(FreshDoc, scheme))
    /\ switch_to_tab(Len(tabs))
    /\ UNCHANGED save_choice
    /\ AppFrame

\* switchToTab: with the tag of a tab button, the index of an open tab
SwitchToTab ==
    /\ call = "app"
    /\ \E index \in 0 .. (Len(tabs) - 1) : switch_to_tab(index)
    /\ UNCHANGED <<tabs, save_choice>>
    /\ AppFrame

\* The user types in the active tab: the storage delegate parses and applies
\* the attributes with its scheme (text_storage.rs 51-90), then textDidChange
\* marks the tab dirty
TypeInActiveTab ==
    /\ call = "app"
    /\ \E source \in DocTexts :
           /\ source # tabs[active_index + 1].text
           /\ tabs' = [tabs EXCEPT ![active_index + 1] =
                          [@ EXCEPT !.text = source,
                                    !.rendered = IF source = <<>> THEN None
                                                 ELSE Some(tabs[active_index + 1].scheme),
                                    !.is_dirty = TRUE]]
    /\ UNCHANGED <<active_index, save_choice, toolbar>>
    /\ AppFrame

\* apply_scheme(scheme): every delegate gets the scheme; reapply is called for
\* the active tab only, and does nothing on an empty text
ApplyScheme(scheme) ==
    /\ call = "app"
    /\ tabs' = [i \in DOMAIN tabs |->
                   [tabs[i] EXCEPT
                        !.scheme = scheme,
                        !.rendered = IF i - 1 = active_index /\ tabs[i].text # <<>>
                                     THEN Some(scheme) ELSE @]]
    /\ UNCHANGED <<active_index, save_choice, toolbar>>
    /\ AppFrame

\* close_tab, the dirty check: the close goes on unless the tab is dirty and
\* the alert was answered Cancel (Save calls perform_save, which does nothing)
CloseConfirmed_IgnoresCancel(is_dirty, choice) == TRUE

CloseConfirmed(is_dirty, choice) == ~(is_dirty /\ choice = "Cancel")

\* close_tab, the last tab: its text is emptied (the storage delegate then
\* leaves no attributes on it), its url and its dirty flag are reset
ClearedTab(t) ==
    [t EXCEPT !.text = <<>>, !.rendered = None, !.url = None, !.is_dirty = FALSE]

\* close_tab, the corrected active index after tabs.remove(index); len is the
\* length after the removal
NewActiveIndex_Unclamped(index, cur, len) == cur

NewActiveIndex_AlwaysPrevious(index, cur, len) == IF cur > 0 THEN cur - 1 ELSE 0

NewActiveIndex(index, cur, len) ==
    IF index <= cur /\ cur > 0 THEN cur - 1 ELSE Min(cur, len - 1)

\* close_tab(index) with the answer the save alert gets when it is shown
CloseTab(index, choice) ==
    /\ call = "app"
    /\ index \in 0 .. (Len(tabs) - 1)
    /\ choice \in SaveChoices
    /\ AppFrame
    /\ LET is_dirty == tabs[index + 1].is_dirty
       IN  /\ save_choice' = IF is_dirty THEN Some(choice) ELSE save_choice
           /\ IF ~CloseConfirmed(is_dirty, choice)
              THEN UNCHANGED <<tabs, active_index, toolbar>>
              ELSE IF Len(tabs) = 1
              THEN /\ tabs' = [tabs EXCEPT ![1] = ClearedTab(@)]
                   /\ UNCHANGED <<active_index, toolbar>>
              ELSE /\ tabs' = Remove(tabs, index)
                   /\ switch_to_tab(NewActiveIndex(index, active_index, Len(tabs) - 1))

AppNext ==
    \/ AddEmptyTab
    \/ SwitchToTab
    \/ TypeInActiveTab
    \/ \E scheme \in Schemes : ApplyScheme(scheme)
    \/ \E index \in 0 .. (MaxTabs - 1), choice \in SaveChoices : CloseTab(index, choice)

AppSpec == AppInit /\ [][AppNext]_vars

\* ---------------------------------------------------------------------------
\* Claims about the tab list
\* ---------------------------------------------------------------------------
\* The open document an index (from 0) designates
TabAt(list, index) == list[index + 1]

\* The instances open in a tab list
DocsOf(list) == {list[i].doc : i \in DOMAIN list}

\* The tab of a tab list that holds a given instance
TabOf(list, doc) == list[CHOOSE i \in DOMAIN list : list[i].doc = doc]

\* C26: when apply_scheme(scheme) returns, every open tab's delegate holds the
\* new scheme and the attributes on every open tab's text are those applied
\* with the new scheme.
C26_AllTabsRerendered ==
    [][\A scheme \in Schemes :
           ApplyScheme(scheme) =>
               \A i \in DOMAIN tabs' :
                   /\ tabs'[i].scheme = scheme
                   /\ tabs'[i].text # <<>> => tabs'[i].rendered = Some(scheme)]_vars

\* C28: once the first tab exists, whatever tabs are added, switched to and
\* closed, the tab list is never empty and active_index designates an open
\* tab; and closing the only open tab keeps that tab, with an empty text, no
\* url and a clear dirty flag.
C28_TabListInvariant ==
    /\ [](call = "app" => /\ Len(tabs) >= 1
                          /\ active_index \in 0 .. (Len(tabs) - 1))
    /\ [][\A choice \in SaveChoices :
              (/\ Len(tabs) = 1
               /\ CloseTab(0, choice)
               /\ ~(tabs[1].is_dirty /\ choice = "Cancel"))
              => /\ Len(tabs') = 1
                 /\ tabs'[1].doc = tabs[1].doc
                 /\ tabs'[1].text = <<>>
                 /\ tabs'[1].url = None
                 /\ tabs'[1].is_dirty = FALSE]_vars

\* Tabs were added and closed, the last alert answered Don't Save: one tab is
\* left, the last one opened, empty and clean.
C28_Witness ==
    /\ call = "app"
    /\ Len(tabs) = 1
    /\ save_choice = Some("DontSave")
    /\ tabs[1].text = <<>>
    /\ ~tabs[1].is_dirty
    /\ tabs[1].doc = MaxTabs

\* C29: closing a tab that is not the active one, with more than one tab open,
\* leaves the same document active, and every remaining document keeps its
\* text, its url and its dirty flag.
C29_CloseInactiveTab ==
    [][\A index \in 0 .. (Len(tabs) - 1), choice \in SaveChoices :
           (/\ Len(tabs) > 1
            /\ index # active_index
            /\ CloseTab(index, choice))
           => /\ TabAt(tabs', active_index').doc = TabAt(tabs, active_index).doc
              /\ \A doc \in DocsOf(tabs') :
                     /\ doc \in DocsOf(tabs)
                     /\ TabOf(tabs', doc).text = TabOf(tabs, doc).text
                     /\ TabOf(tabs', doc).url = TabOf(tabs, doc).url
                     /\ TabOf(tabs', doc).is_dirty = TabOf(tabs, doc).is_dirty]_vars

\* A dirty tab before the active one has been closed with Don't Save: two
\* tabs remain, out of three, the first one still active with its text.
C29_Witness ==
    /\ call = "app"
    /\ Len(tabs) = 2
    /\ save_choice = Some("DontSave")
    /\ active_index = 1
    /\ tabs[1].doc = 2
    /\ tabs[2].doc = 3
    /\ tabs[2].text # <<>>
    /\ tabs[2].is_dirty

\* C30: answering Cancel to the save alert of a dirty tab changes neither the
\* tab list nor the active index; a close removes or clears a tab only when
\* the tab is clean or the answer is Save or Don't Save.
C30_CancelChangesNothing ==
    [][\A index \in 0 .. (Len(tabs) - 1), choice \in SaveChoices :
           CloseTab(index, choice) =>
               /\ (tabs[index + 1].is_dirty /\ choice = "Cancel")
                      => UNCHANGED <<tabs, active_index>>
               /\ tabs' # tabs
                      => \/ ~tabs[index + 1].is_dirty
                         \/ choice \in {"Save", "DontSave"}]_vars

\* The alert of a dirty tab was answered Cancel, and every open tab is dirty
\* and has text: nothing was removed or cleared.
C30_Witness ==
    /\ call = "app"
    /\ save_choice = Some("Cancel")
    /\ Len(tabs) = MaxTabs
    /\ \A i \in DOMAIN tabs : tabs[i].is_dirty /\ tabs[i].text # <<>>

====
